---- MODULE Spec2Model ----
(***************************************************************************)
(* JSON Schema to proto3 converter (package converter).                    *)
(*                                                                         *)
(* Go strings that the code inspects character by character (property      *)
(* names, message names, proto types, descriptions) are sequences of       *)
(* one-character strings; sort.Strings compares them byte-wise through     *)
(* CodeTable.  JSON "type" and "format" values are only compared for       *)
(* equality and used as map keys, so they stay atomic strings ("" when the *)
(* key is absent or not a string).  A proto text is the sequence of its    *)
(* lines, each line a record of the values fmt.Sprintf puts on it.         *)
(***************************************************************************)
EXTENDS Integers, Sequences, FiniteSets, TLC

\* ------------------------------------------------------------------------
\* Bytes and strings
\* ------------------------------------------------------------------------
UpperChars == <<"A","B","C","D","E","F","G","H","I","J","K","L","M",
                "N","O","P","Q","R","S","T","U","V","W","X","Y","Z">>

LowerChars == <<"a","b","c","d","e","f","g","h","i","j","k","l","m",
                "n","o","p","q","r","s","t","u","v","w","x","y","z">>

DigitChars == <<"0","1","2","3","4","5","6","7","8","9">>

OtherChars == {"\n", " ", "-", ".", "_"}

Range(s) == {s[i] : i \in DOMAIN s}

\* The element of a singleton set.  A value that is read several times is
\* bound as x \in {value}, so that it is computed once.
Only(S) == CHOOSE x \in S : TRUE

Chars == Range(UpperChars) \cup Range(LowerChars) \cup Range(DigitChars) \cup OtherChars

IndexIn(s, c) == CHOOSE i \in DOMAIN s : s[i] = c

\* The byte value of a character (ASCII), the key sort.Strings compares.
CodeTable ==
  [c \in Chars |->
     IF c \in Range(UpperChars) THEN 64 + IndexIn(UpperChars, c)
     ELSE IF c \in Range(LowerChars) THEN 96 + IndexIn(LowerChars, c)
     ELSE IF c \in Range(DigitChars) THEN 47 + IndexIn(DigitChars, c)
     ELSE IF c = "\n" THEN 10
     ELSE IF c = " " THEN 32
     ELSE IF c = "-" THEN 45
     ELSE IF c = "." THEN 46
     ELSE 95]

\* strings.ToLower / strings.ToUpper on one ASCII character.
LowerTable ==
  [c \in Chars |-> IF c \in Range(UpperChars) THEN LowerChars[IndexIn(UpperChars, c)] ELSE c]

UpperTable ==
  [c \in Chars |-> IF c \in Range(LowerChars) THEN UpperChars[IndexIn(LowerChars, c)] ELSE c]

ToLower(s) == [i \in DOMAIN s |-> LowerTable[s[i]]]

IsDigit(c) == c \in Range(DigitChars)

\* Go's s < t on strings: byte-wise lexicographic.
RECURSIVE StrLess(_, _)
StrLess(a, b) ==
  IF b = <<>> THEN FALSE
  ELSE IF a = <<>> THEN TRUE
  ELSE IF CodeTable[a[1]] # CodeTable[b[1]] THEN CodeTable[a[1]] < CodeTable[b[1]]
  ELSE StrLess(Tail(a), Tail(b))

\* Inserts x into the ascending sequence s.
RECURSIVE InsertSorted(_, _)
InsertSorted(s, x) ==
  IF s = <<>> THEN <<x>>
  ELSE IF StrLess(x, s[1]) THEN <<x>> \o s
  ELSE <<s[1]>> \o InsertSorted(Tail(s), x)

\* sort.Strings: the ascending arrangement of the strings of s.
RECURSIVE SortStrings(_)
SortStrings(s) ==
  IF s = <<>> THEN <<>> ELSE InsertSorted(SortStrings(Tail(s)), s[1])

\* strings.Split(s, sep) for a one-character separator.
RECURSIVE Split(_, _)
Split(s, sep) ==
  IF \A i \in DOMAIN s : s[i] # sep THEN <<s>>
  ELSE LET k == CHOOSE i \in DOMAIN s : s[i] = sep /\ \A j \in 1..(i - 1) : s[j] # sep
       IN  <<SubSeq(s, 1, k - 1)>> \o Split(SubSeq(s, k + 1, Len(s)), sep)

\* strings.Join(parts, "").
RECURSIVE Join(_)
Join(parts) == IF parts = <<>> THEN <<>> ELSE parts[1] \o Join(Tail(parts))

\* String literals of the code.
StrString   == <<"s","t","r","i","n","g">>
StrInt32    == <<"i","n","t","3","2">>
StrDouble   == <<"d","o","u","b","l","e">>
StrBool     == <<"b","o","o","l">>
StrRepeated == <<"r","e","p","e","a","t","e","d">>
StrMessage  == <<"m","e","s","s","a","g","e">>
StrRoot     == <<"R","o","o","t">>
StrItem     == <<"I","t","e","m">>
StrField    == <<"f","i","e","l","d">>
StrSchema   == <<"s","c","h","e","m","a">>

\* ------------------------------------------------------------------------
\* Naming
\* ------------------------------------------------------------------------
\* The length of the leading digit run of s (regexp ^[0-9]+).
RECURSIVE DigitRun(_)
DigitRun(s) ==
  IF s = <<>> \/ ~IsDigit(s[1]) THEN 0 ELSE 1 + DigitRun(Tail(s))

\* Variant: only the first digit is moved to the end.
SanitizeFieldName_OneDigit(name) ==
  LET lower == ToLower(name)
      repl  == [i \in DOMAIN lower |->
                  IF lower[i] \in Range(LowerChars) \/ IsDigit(lower[i])
                  THEN lower[i] ELSE "_"]
      rest  == SubSeq(repl, 2, Len(repl))
  IN  IF Len(repl) > 0 /\ IsDigit(repl[1])
      THEN (IF rest = <<>> THEN StrField ELSE rest) \o <<repl[1]>>
      ELSE repl

SanitizeFieldName(name) ==
  LET lower == ToLower(name)
      repl  == [i \in DOMAIN lower |->
                  IF lower[i] \in Range(LowerChars) \/ IsDigit(lower[i])
                  THEN lower[i] ELSE "_"]
      n     == DigitRun(repl)
      numbers == SubSeq(repl, 1, n)
      rest  == SubSeq(repl, n + 1, Len(repl))
  IN  IF Len(repl) > 0 /\ IsDigit(repl[1])
      THEN (IF rest = <<>> THEN StrField ELSE rest) \o numbers
      ELSE repl

toProtoMessageName(name) ==
  LET parts == Split(name, "_")
      cap   == [i \in DOMAIN parts |->
                  IF Len(parts[i]) > 0
                  THEN <<UpperTable[parts[i][1]]>> \o Tail(parts[i])
                  ELSE parts[i]]
  IN  Join(cap)

\* ------------------------------------------------------------------------
\* Parsed JSON values (interface{} after json.Unmarshal)
\* ------------------------------------------------------------------------
\* Any value that is not a JSON object (string, number, list, boolean, null),
\* and also the result of reading an absent key: the code's type assertion
\* .(map[string]interface{}) fails on all of them alike.
NotAMap == [kind |-> "value"]

\* A JSON object with property names as keys ("properties", "definitions").
Entries(m) == [kind |-> "entries", m |-> m]

\* A JSON object read as a schema node: the keys the code reads.
Node(type, format, description, items, properties) ==
  [kind |-> "map", type |-> type, format |-> format, description |-> description,
   items |-> items, properties |-> properties]

\* The top-level schema mapping: the keys ConvertJSONSchemaToProto reads.
Schema(description, properties, definitions) ==
  [description |-> description, properties |-> properties, definitions |-> definitions]

\* ------------------------------------------------------------------------
\* Options
\* ------------------------------------------------------------------------
NilOptions == [kind |-> "nil"]

Options(packageName, typeMappings) ==
  [kind |-> "options", PackageName |-> packageName, TypeMappings |-> typeMappings]

DefaultTypeMappings ==
  ("string" :> StrString) @@ ("integer" :> StrInt32) @@ ("number" :> StrDouble) @@
  ("boolean" :> StrBool) @@ ("array" :> StrRepeated) @@ ("object" :> StrMessage)

DefaultOptions == Options(StrSchema, DefaultTypeMappings)

\* Variant: the mapping table is consulted before the format.
GetProtoType_TableFirst(jsonType, format, opts) ==
  LET o == IF opts.kind = "nil" THEN DefaultOptions ELSE opts
  IN  IF jsonType \in DOMAIN o.TypeMappings THEN o.TypeMappings[jsonType]
      ELSE IF format = "date-time" THEN StrString
      ELSE StrString

GetProtoType(jsonType, format, opts) ==
  LET o == IF opts.kind = "nil" THEN DefaultOptions ELSE opts
  IN  IF format = "date-time" THEN StrString
      ELSE IF jsonType \in DOMAIN o.TypeMappings THEN o.TypeMappings[jsonType]
      ELSE StrString

\* ------------------------------------------------------------------------
\* Map iteration
\* ------------------------------------------------------------------------
RECURSIVE SetToSeq(_)
SetToSeq(S) ==
  IF S = {} THEN <<>> ELSE LET x == CHOOSE x \in S : TRUE IN <<x>> \o SetToSeq(S \ {x})

\* `for k := range m`: Go yields the keys of a map in an unspecified order.
\* ord, a permutation of 1..Len(ord), selects the order: the key at position i
\* of the ascending arrangement is yielded with priority ord[i] (priority i
\* beyond Len(ord)), so every arrangement of up to Len(ord) keys occurs.
MapRange(keys, ord) ==
  LET rank(i) == IF i \in DOMAIN ord THEN ord[i] ELSE i
      pos(i, n) == 1 + Cardinality({j \in 1..n : rank(j) < rank(i)})
  IN  Only({ [k \in 1..Len(base) |->
                  base[CHOOSE i \in 1..Len(base) : pos(i, Len(base)) = k]]
             : base \in {SortStrings(SetToSeq(keys))} })

\* Variant: the collected keys are left in iteration order.
SortedKeys_Unsorted(m, ord) == MapRange(DOMAIN m, ord)

\* keys := collect(range m); sort.Strings(keys)
SortedKeys(m, ord) == SortStrings(MapRange(DOMAIN m, ord))

\* ------------------------------------------------------------------------
\* Proto text
\* ------------------------------------------------------------------------
\* "// <line>\n" for every line of desc.
formatDescription(desc) ==
  LET lines == Split(desc, "\n")
  IN  [i \in DOMAIN lines |-> [kind |-> "comment", text |-> lines[i]]]

\* "  <type> <name> = <number>;\n"
FieldLine(fieldType, fieldName, fieldNumber) ==
  [kind |-> "field", type |-> fieldType, name |-> fieldName, number |-> fieldNumber]

\* "<comment>message <name> {\n<fields>}\n"
MessageText(comment, name, fields) ==
  comment \o <<[kind |-> "message", name |-> name]>> \o fields \o <<[kind |-> "close"]>>

\* "syntax = \"proto3\";\n\n" and "package <name>;\n\n"
Header(opts) ==
  <<[kind |-> "syntax"], [kind |-> "blank"],
    [kind |-> "package", name |-> opts.PackageName], [kind |-> "blank"]>>

\* ------------------------------------------------------------------------
\* The message registry (messages map[string]string) with the history of
\* the assignments made to it (writes) and of the resolver calls made on it
\* (calls), and the arguments of the resolver calls that have not returned
\* (stack, the Go call stack)
\* ------------------------------------------------------------------------
EmptyRegistry == [messages |-> <<>>, writes |-> <<>>, calls |-> <<>>, stack |-> <<>>]

\* The caller of a resolver call made by one of the loops of
\* ConvertJSONSchemaToProto, which is no resolver call.
NoCaller == [kind |-> "none"]

\* Entry of processPropertyCollect(name, prop, messages, opts): the call is
\* recorded with the argument of the resolver call that makes it.
Enter(st, name, prop) ==
  [st EXCEPT !.calls = Append(st.calls,
                              [name |-> name, prop |-> prop,
                               parent |-> IF st.stack = <<>> THEN NoCaller
                                          ELSE st.stack[Len(st.stack)]]),
             !.stack = Append(st.stack, prop)]

\* messages[name] = text
Store(st, name, text) ==
  [st EXCEPT !.messages = (name :> text) @@ st.messages,
             !.writes = Append(st.writes,
                               [name |-> name, text |-> text,
                                existed |-> name \in DOMAIN st.messages])]

Nil == [msg |-> "nil", name |-> <<>>]

\* Variant: the error does not name the property.
Errorf_Anonymous(msg, name) == [msg |-> msg, name |-> <<>>]

\* fmt.Errorf("<msg> %s", name)
Errorf(msg, name) == [msg |-> msg, name |-> name]

\* ------------------------------------------------------------------------
\* The resolver
\* ------------------------------------------------------------------------
\* A call returns [type, err, st]: the proto type, the error (Nil when none)
\* and the registry as the call leaves it (the Go map is mutated in place,
\* so what a failed call stored stays stored).
Return(type, err, st) ==
  [type |-> type, err |-> err,
   st |-> [st EXCEPT !.stack = SubSeq(st.stack, 1, Len(st.stack) - 1)]]

RECURSIVE processPropertyCollect(_, _, _, _, _)
RECURSIVE NestedFields(_, _, _, _, _, _, _, _)

\* The loop over the sorted keys of a nested object's properties, from key
\* number i on; returns [err, st, fields].
NestedFields(keys, i, props, st, fields, fieldNumber, opts, ord) ==
  IF i > Len(keys) THEN [err |-> Nil, st |-> st, fields |-> fields]
  ELSE Only({
         IF r.err # Nil THEN [err |-> r.err, st |-> r.st, fields |-> fields]
         ELSE IF r.type # <<>>
         THEN NestedFields(keys, i + 1, props, r.st,
                           Append(fields,
                                  FieldLine(r.type, SanitizeFieldName(keys[i]),
                                            fieldNumber)),
                           fieldNumber + 1, opts, ord)
         ELSE NestedFields(keys, i + 1, props, r.st, fields, fieldNumber, opts, ord)
         : r \in {processPropertyCollect(keys[i], props[keys[i]], st, opts, ord)} })

\* case "object" of processPropertyCollect, entered with the call recorded.
ObjectCase(name, prop, st, opts, ord) ==
  Only({
    IF messageName \notin DOMAIN st.messages
    THEN Only({
           IF loop.err # Nil THEN Return(<<>>, loop.err, loop.st)
           ELSE Return(messageName, Nil,
                       Store(loop.st, messageName,
                             MessageText(<<>>, messageName, loop.fields)))
           : loop \in { IF prop.properties.kind = "entries"
                        THEN Only({ NestedFields(keys, 1, prop.properties.m, st,
                                                 <<>>, 1, opts, ord)
                                    : keys \in {SortedKeys(prop.properties.m, ord)} })
                        ELSE [err |-> Nil, st |-> st, fields |-> <<>>] } })
    ELSE Return(messageName, Nil, st)
    : messageName \in {toProtoMessageName(name)} })

\* Variant: an array resolves its own node, read without its type, in place
\* of its items.
ArrayCase_SameNode(name, prop, st, opts, ord) ==
  IF prop.items.kind # "map"
  THEN Return(<<>>, Errorf("invalid array items format for", name), st)
  ELSE Only({
         IF r.err # Nil THEN Return(<<>>, r.err, r.st)
         ELSE Return(StrRepeated \o <<" ">> \o r.type, Nil, r.st)
         : r \in {processPropertyCollect(name \o StrItem, [prop EXCEPT !.type = ""],
                                         st, opts, ord)} })

\* case "array" of processPropertyCollect, entered with the call recorded.
ArrayCase(name, prop, st, opts, ord) ==
  IF prop.items.kind # "map"
  THEN Return(<<>>, Errorf("invalid array items format for", name), st)
  ELSE Only({
         IF r.err # Nil THEN Return(<<>>, r.err, r.st)
         ELSE Return(StrRepeated \o <<" ">> \o r.type, Nil, r.st)
         : r \in {processPropertyCollect(name \o StrItem, prop.items, st, opts, ord)} })

\* Variant: a property that is no JSON object yields no field and no error.
processPropertyCollect_Lenient(name, prop, st0, opts, ord) ==
  Only({
    IF prop.kind # "map" THEN Return(<<>>, Nil, st)
    ELSE IF prop.type = "array" THEN ArrayCase(name, prop, st, opts, ord)
    ELSE IF prop.type = "object" THEN ObjectCase(name, prop, st, opts, ord)
    ELSE Return(GetProtoType(prop.type, prop.format, opts), Nil, st)
    : st \in {Enter(st0, name, prop)} })

processPropertyCollect(name, prop, st0, opts, ord) ==
  Only({
    IF prop.kind # "map"
    THEN Return(<<>>, Errorf("invalid property format for", name), st)
    ELSE IF prop.type = "array" THEN ArrayCase(name, prop, st, opts, ord)
    ELSE IF prop.type = "object" THEN ObjectCase(name, prop, st, opts, ord)
    ELSE Return(GetProtoType(prop.type, prop.format, opts), Nil, st)
    : st \in {Enter(st0, name, prop)} })

\* The description comment the loops of ConvertJSONSchemaToProto write before
\* a property's field line.
PropComment(prop) ==
  IF prop.kind = "map" /\ prop.description # <<>>
  THEN formatDescription(prop.description) ELSE <<>>

\* Variant: a property of empty type takes a field number all the same.
RECURSIVE TopFields_CountsEmpty(_, _, _, _, _, _, _, _)
TopFields_CountsEmpty(keys, i, props, st, fields, fieldNumber, opts, ord) ==
  IF i > Len(keys) THEN [err |-> Nil, st |-> st, fields |-> fields]
  ELSE Only({
         IF r.err # Nil
         THEN [err |-> r.err, st |-> r.st, fields |-> fields \o PropComment(props[keys[i]])]
         ELSE TopFields_CountsEmpty(
                keys, i + 1, props, r.st,
                IF r.type # <<>>
                THEN Append(fields \o PropComment(props[keys[i]]),
                            FieldLine(r.type, SanitizeFieldName(keys[i]), fieldNumber))
                ELSE fields \o PropComment(props[keys[i]]),
                fieldNumber + 1, opts, ord)
         : r \in {processPropertyCollect(keys[i], props[keys[i]], st, opts, ord)} })

\* The loop over the sorted keys of the top-level properties and of a
\* definition's properties, from key number i on; returns [err, st, fields].
RECURSIVE TopFields(_, _, _, _, _, _, _, _)
TopFields(keys, i, props, st, fields, fieldNumber, opts, ord) ==
  IF i > Len(keys) THEN [err |-> Nil, st |-> st, fields |-> fields]
  ELSE Only({
         IF r.err # Nil
         THEN [err |-> r.err, st |-> r.st, fields |-> fields \o PropComment(props[keys[i]])]
         ELSE IF r.type # <<>>
         THEN TopFields(keys, i + 1, props, r.st,
                        Append(fields \o PropComment(props[keys[i]]),
                               FieldLine(r.type, SanitizeFieldName(keys[i]), fieldNumber)),
                        fieldNumber + 1, opts, ord)
         ELSE TopFields(keys, i + 1, props, r.st,
                        fields \o PropComment(props[keys[i]]), fieldNumber, opts, ord)
         : r \in {processPropertyCollect(keys[i], props[keys[i]], st, opts, ord)} })

\* The loop of TopFields over all the entries of a "properties" value, none
\* when the value is no JSON object.
FieldsOf(properties, st, opts, ord) ==
  IF properties.kind = "entries"
  THEN Only({ TopFields(keys, 1, properties.m, st, <<>>, 1, opts, ord)
              : keys \in {SortedKeys(properties.m, ord)} })
  ELSE [err |-> Nil, st |-> st, fields |-> <<>>]

\* formatDescription of a "description" that is a non-empty string.
Comment(description) ==
  IF description # <<>> THEN formatDescription(description) ELSE <<>>

\* Variant: Root is registered only when "properties" has at least one entry.
RootMessage_NonEmpty(schema, st, opts, ord) ==
  IF schema.properties.kind = "entries" /\ DOMAIN schema.properties.m # {}
  THEN Only({
         IF loop.err # Nil THEN [err |-> loop.err, st |-> loop.st]
         ELSE [err |-> Nil,
               st |-> Store(loop.st, StrRoot,
                            MessageText(Comment(schema.description), StrRoot,
                                        loop.fields))]
         : loop \in {FieldsOf(schema.properties, st, opts, ord)} })
  ELSE [err |-> Nil, st |-> st]

\* if props, ok := schema["properties"]...: the Root message.
RootMessage(schema, st, opts, ord) ==
  IF schema.properties.kind = "entries"
  THEN Only({
         IF loop.err # Nil THEN [err |-> loop.err, st |-> loop.st]
         ELSE [err |-> Nil,
               st |-> Store(loop.st, StrRoot,
                            MessageText(Comment(schema.description), StrRoot,
                                        loop.fields))]
         : loop \in {FieldsOf(schema.properties, st, opts, ord)} })
  ELSE [err |-> Nil, st |-> st]

\* The loop over the sorted names of the definitions, from name number i on.
RECURSIVE Definitions(_, _, _, _, _, _)
Definitions(defNames, i, defs, st, opts, ord) ==
  IF i > Len(defNames) THEN [err |-> Nil, st |-> st]
  ELSE IF defs[defNames[i]].kind = "map"
  THEN Only({
         IF loop.err # Nil THEN [err |-> loop.err, st |-> loop.st]
         ELSE Definitions(defNames, i + 1, defs,
                          Store(loop.st, defNames[i],
                                MessageText(Comment(defs[defNames[i]].description),
                                            defNames[i], loop.fields)),
                          opts, ord)
         : loop \in {FieldsOf(defs[defNames[i]].properties, st, opts, ord)} })
  ELSE Definitions(defNames, i + 1, defs, st, opts, ord)

\* Variant: Root is put in front of the sorted names and also left in place.
MoveRootToFront_Keep(msgNames) ==
  IF \E i \in DOMAIN msgNames : msgNames[i] = StrRoot /\ i # 1
  THEN <<StrRoot>> \o msgNames
  ELSE msgNames

\* Variant: the sorted names are emitted as they are.
MoveRootToFront_Skip(msgNames) == msgNames

\* Move 'Root' to the front if present: swaps it with the first name.
MoveRootToFront(msgNames) ==
  IF \E i \in DOMAIN msgNames : msgNames[i] = StrRoot /\ i # 1
  THEN Only({ [msgNames EXCEPT ![1] = msgNames[i], ![i] = msgNames[1]]
              : i \in {i \in DOMAIN msgNames : msgNames[i] = StrRoot} })
  ELSE msgNames

\* The names of the registry in the order their messages are written.
EmitOrder(messages, ord) == MoveRootToFront(SortedKeys(messages, ord))

\* The concatenation of the messages named by msgNames, from number i on.
RECURSIVE EmitMessages(_, _, _)
EmitMessages(messages, msgNames, i) ==
  IF i > Len(msgNames) THEN <<>>
  ELSE messages[msgNames[i]] \o EmitMessages(messages, msgNames, i + 1)

\* The proto text of the registry.
Emit(messages, opts, ord) ==
  Only({ Header(opts) \o EmitMessages(messages, msgNames, 1)
         : msgNames \in {EmitOrder(messages, ord)} })

\* What the function returns after the Root message: the definitions, then
\* the text.
AfterRoot(schema, root, opts, ord) ==
  Only({
    IF defs.err # Nil
    THEN [out |-> <<>>, err |-> defs.err, messages |-> defs.st.messages,
          writes |-> defs.st.writes, calls |-> defs.st.calls]
    ELSE [out |-> Emit(defs.st.messages, opts, ord), err |-> Nil,
          messages |-> defs.st.messages,
          writes |-> defs.st.writes, calls |-> defs.st.calls]
    : defs \in { IF root.err # Nil THEN root
                 ELSE IF schema.definitions.kind = "entries"
                 THEN Only({ Definitions(defNames, 1, schema.definitions.m,
                                         root.st, opts, ord)
                             : defNames \in {SortedKeys(schema.definitions.m, ord)} })
                 ELSE root } })

\* Returns [out, err, messages, writes, calls]: the proto text and the error
\* the Go function returns, with the registry and its history at return.
ConvertJSONSchemaToProto(schema, opts, ord) ==
  Only({ AfterRoot(schema, root, o, ord)
         : o \in {IF opts.kind = "nil" THEN DefaultOptions ELSE opts},
           root \in {RootMessage(schema, EmptyRegistry, IF opts.kind = "nil" THEN DefaultOptions ELSE opts, ord)} })

\* ------------------------------------------------------------------------
\* Inputs
\* ------------------------------------------------------------------------
\* The most keys a JSON object of an input has.
MaxKeys == 2

\* The most schema nodes below the top level of an input.
MaxNodes == 2

Desc == <<"d", "\n", "e">>

\* Property names: "A" and "a" derive the same message name and the same field
\* name, "_" derives the empty message name, "root" derives "Root".
PropNames == {<<"A">>, <<"_">>, <<"a">>, <<"r","o","o","t">>}

\* Definition keys: "a" is no PascalCase name, "Root" is the name of the
\* message of the top-level properties.
DefNames == {StrRoot, <<"a">>}

\* The schema nodes without children: a described scalar, a node without
\* "type" (as one that carries only "$ref" or "enum"), a value that is no JSON
\* object, an array without "items", a described object without "properties".
Leaves ==
  { Node("integer", "", Desc, NotAMap, NotAMap),
    Node("", "", <<>>, NotAMap, NotAMap),
    NotAMap,
    Node("array", "", <<>>, NotAMap, NotAMap),
    Node("object", "", Desc, NotAMap, NotAMap) }

\* The maps from the names of keys (a sequence) to values whose sizes add up
\* to size, where of[n] is the set of values of size n.
RECURSIVE MapsOver(_, _, _)
MapsOver(keys, size, of) ==
  IF keys = <<>> THEN (IF size = 0 THEN {<<>>} ELSE {})
  ELSE UNION { { (keys[1] :> x) @@ m : x \in of[n],
                                      m \in MapsOver(Tail(keys), size - n, of) }
               : n \in 1..size }

\* The maps with 1 to MaxKeys keys among names and values of total size size.
MapsOfSize(names, size, of) ==
  UNION { MapsOver(SetToSeq(K), size, of)
          : K \in {K \in SUBSET names : Cardinality(K) \in 1..MaxKeys} }

\* The schema nodes with exactly n nodes.
RECURSIVE NodesOfSize(_)
NodesOfSize(n) ==
  IF n = 1 THEN Leaves
  ELSE LET below == [k \in 1..(n - 1) |-> NodesOfSize(k)]
       IN  { Node("array", "", <<>>, x, NotAMap) : x \in below[n - 1] \ {NotAMap} }
           \cup
           { Node("object", "", <<>>, NotAMap, Entries(m))
             : m \in MapsOfSize(PropNames, n - 1, below) }

NodeSets == [n \in 1..MaxNodes |-> NodesOfSize(n)]

\* The values of "properties" and "definitions" of total size n: the absent
\* key has size 0, the empty JSON object size 1.
EntriesOfSize(names, n) ==
  IF n = 0 THEN {NotAMap}
  ELSE { Entries(m) : m \in MapsOfSize(names, n, NodeSets) }
       \cup (IF n = 1 THEN {Entries(<<>>)} ELSE {})

\* The top-level schemas of size n, with a description on the small ones.
SchemasOfSize(n) ==
  UNION { { Schema(d, p, q) : d \in (IF n <= 1 THEN {<<>>, Desc} ELSE {<<>>}),
                              p \in EntriesOfSize(PropNames, np),
                              q \in EntriesOfSize(DefNames, n - np) }
          : np \in 0..n }

\* The options of the conversions: none, and on the small schemas also what
\* the command line passes without -type-aliases.
ConvertCalls ==
  UNION { { [fn |-> "ConvertJSONSchemaToProto", schema |-> s, opts |-> o]
            : s \in SchemasOfSize(n),
              o \in (IF n <= 1 THEN {NilOptions, Options(<<"p">>, <<>>)}
                     ELSE {NilOptions}) }
          : n \in 0..MaxNodes }

\* The orders in which a range over a map yields its keys.
Orders == Permutations(1..MaxKeys)

\* Caller-supplied type mappings: the default table, the empty one, tables
\* that override one type (as the -type-aliases flag and the tests build).
TypeMappingTables ==
  { DefaultTypeMappings,
    <<>>,
    "boolean" :> <<"B","O","O","L">>,
    "integer" :> <<"i","n","t","6","4">>,
    "string" :> <<"b","y","t","e","s">>,
    ("string" :> <<"b","y","t","e","s">>) @@ ("integer" :> <<"i","n","t","6","4">>) }

ResolveOptions == {NilOptions} \cup {Options(StrSchema, t) : t \in TypeMappingTables}

\* Scalar schema nodes: "type" and "format" present, absent or unrecognised.
ScalarNodes ==
  { Node(t, f, <<>>, NotAMap, NotAMap)
    : t \in {"string", "integer", "number", "boolean", "null", ""},
      f \in {"", "date-time", "email"} }

\* Resolutions of one node on an empty registry.
ResolveCalls ==
  { [fn |-> "processPropertyCollect", name |-> <<"a">>, prop |-> n, opts |-> o]
    : n \in ScalarNodes, o \in ResolveOptions }

\* The longest name given to SanitizeFieldName and to the naming of messages.
MaxLen == 3

\* Letters of both cases, two digits, and the separators of words.
NameChars == {"A", "a", "1", "2", "_", "-", " "}

\* The names of 0 to n characters.
RECURSIVE NamesUpTo(_)
NamesUpTo(n) ==
  IF n = 0 THEN {<<>>}
  ELSE {<<>>} \cup {<<c>> \o w : c \in NameChars, w \in NamesUpTo(n - 1)}

Names == NamesUpTo(MaxLen)

SanitizeCalls == { [fn |-> "SanitizeFieldName", name |-> n] : n \in Names }

ObjectNode == Node("object", "", <<>>, NotAMap, NotAMap)

ArrayOf(items) == Node("array", "", <<>>, items, NotAMap)

\* Resolutions, on an empty registry, of an object and of an array of objects
\* under every name.
NamingCalls ==
  { [fn |-> "processPropertyCollect", name |-> n, prop |-> p, opts |-> NilOptions]
    : n \in Names \ {<<>>}, p \in {ObjectNode, ArrayOf(ObjectNode)} }

\* Arrays of scalars and of objects, and arrays of such arrays.
ArrayNodes ==
  LET flat == { ArrayOf(x) : x \in {Node("integer", "", <<>>, NotAMap, NotAMap),
                                    Node("", "", <<>>, NotAMap, NotAMap),
                                    ObjectNode} }
      twice == { ArrayOf(x) : x \in flat }
  IN  flat \cup twice \cup { ArrayOf(x) : x \in twice }

ArrayCalls ==
  { [fn |-> "processPropertyCollect", name |-> <<"a">>, prop |-> p, opts |-> NilOptions]
    : p \in ArrayNodes }

\* Conversions of a schema with one top-level property that is an array.
ArrayConvertCalls ==
  { [fn |-> "ConvertJSONSchemaToProto",
     schema |-> Schema(<<>>, Entries(<<"a">> :> p), NotAMap), opts |-> NilOptions]
    : p \in ArrayNodes }

\* Schemas in which an object property lies inside an object of the same
\* message name: below the top level, below a definition, and through an
\* array.
SelfNamedSchemas ==
  LET inner == Node("object", "", <<>>, NotAMap,
                    Entries(<<"a">> :> Node("", "", <<>>, NotAMap, NotAMap)))
      outer == Node("object", "", <<>>, NotAMap, Entries(<<"a">> :> inner))
      item  == Node("object", "", <<>>, NotAMap,
                    Entries(<<"a","I","t","e","m">> :> inner))
  IN  { Schema(<<>>, Entries(<<"a">> :> outer), NotAMap),
        Schema(<<>>, NotAMap, Entries(<<"A">> :> outer)),
        Schema(<<>>, Entries(<<"a">> :> outer), Entries(<<"A">> :> outer)),
        Schema(<<>>, Entries(<<"a">> :> ArrayOf(item)), NotAMap) }

\* The calls whose return is followed under fairness: conversions of the
\* self-named schemas, of the arrays and of the schemas with at most one
\* node, resolutions of the arrays, and SanitizeFieldName on the shortest
\* names.
ReturningCalls ==
  { [fn |-> "ConvertJSONSchemaToProto", schema |-> x, opts |-> NilOptions]
    : x \in SelfNamedSchemas \cup SchemasOfSize(0) \cup SchemasOfSize(1) }
  \cup ArrayConvertCalls \cup ArrayCalls
  \cup { c \in SanitizeCalls : Len(c.name) <= 1 }

Calls ==
  ReturningCalls \cup ConvertCalls \cup ArrayConvertCalls \cup ResolveCalls \cup NamingCalls
  \cup ArrayCalls \cup SanitizeCalls

\* ------------------------------------------------------------------------
\* State: the call under examination and what its successive executions
\* returned
\* ------------------------------------------------------------------------
VARIABLES call, results

vars == <<call, results>>

Init ==
  /\ call \in Calls
  /\ results = <<>>

\* One conversion of the schema; ord is the order the Go runtime happens to
\* iterate maps in during it.  The same input is converted twice.
Convert(ord) ==
  /\ call.fn = "ConvertJSONSchemaToProto"
  /\ Len(results) < 2
  /\ results' = Append(results,
                       [ord |-> ord,
                        ret |-> ConvertJSONSchemaToProto(call.schema, call.opts, ord)])
  /\ UNCHANGED call

\* One resolution of the node on an empty registry.
Resolve(ord) ==
  /\ call.fn = "processPropertyCollect"
  /\ Len(results) < 2
  /\ results' = Append(results,
                       [ord |-> ord,
                        ret |-> processPropertyCollect(call.name, call.prop,
                                                       EmptyRegistry, call.opts, ord)])
  /\ UNCHANGED call

\* One evaluation of SanitizeFieldName(name).
Sanitize ==
  /\ call.fn = "SanitizeFieldName"
  /\ Len(results) < 1
  /\ results' = Append(results, [ord |-> <<>>, ret |-> SanitizeFieldName(call.name)])
  /\ UNCHANGED call

Next ==
  \/ \E ord \in Orders : Convert(ord) \/ Resolve(ord)
  \/ Sanitize

Spec == Init /\ [][Next]_vars

\* A call is synchronous and has no cancellation point: once made, it runs.
FairInit ==
  /\ call \in ReturningCalls
  /\ results = <<>>

FairSpec == FairInit /\ [][Next]_vars /\ WF_vars(Next)

\* ------------------------------------------------------------------------
\* Vocabulary of the properties
\* ------------------------------------------------------------------------
IsConversion == call.fn = "ConvertJSONSchemaToProto"

IsResolution == call.fn = "processPropertyCollect"

IsSanitization == call.fn = "SanitizeFieldName"

Runs == DOMAIN results

Succeeded(i) == results[i].ret.err = Nil

\* The names on the `message <Name> {` lines of a text, in text order.
MessageNames(text) ==
  LET heads == SelectSeq(text, LAMBDA l : l.kind = "message")
  IN  [i \in DOMAIN heads |-> heads[i].name]

\* The field lines of the message that begins on line i of a text.
BlockFields(text, i) ==
  LET close == CHOOSE j \in (i + 1)..Len(text) :
                 /\ text[j].kind = "close"
                 /\ \A k \in (i + 1)..(j - 1) : text[k].kind # "close"
  IN  SelectSeq(SubSeq(text, i + 1, close - 1), LAMBDA l : l.kind = "field")

\* The proto type a node resolves to when its resolution succeeds.
RECURSIVE TypeOf(_, _, _)
TypeOf(name, prop, opts) ==
  IF prop.kind # "map" THEN <<>>
  ELSE IF prop.type = "array"
  THEN StrRepeated \o <<" ">> \o TypeOf(name \o StrItem, prop.items, opts)
  ELSE IF prop.type = "object" THEN toProtoMessageName(name)
  ELSE GetProtoType(prop.type, prop.format, opts)

\* The strings of a set in ascending byte order.
RECURSIVE Ascending(_)
Ascending(S) ==
  IF S = {} THEN <<>>
  ELSE LET least == CHOOSE x \in S : \A y \in S \ {x} : StrLess(x, y)
       IN  <<least>> \o Ascending(S \ {least})

\* The field lines of a message made from the properties props: the properties
\* with a non-empty type, in ascending order of their names, numbered from 1.
ExpectedFields(props, opts) ==
  LET named == Ascending({k \in DOMAIN props : TypeOf(k, props[k], opts) # <<>>})
  IN  [k \in DOMAIN named |->
         FieldLine(TypeOf(named[k], props[named[k]], opts),
                   SanitizeFieldName(named[k]), k)]

PropsOf(node) == IF node.properties.kind = "entries" THEN node.properties.m ELSE <<>>

\* The object nodes at or below the node that a property called name holds,
\* each as <<message name it derives, its properties>>.
RECURSIVE NodeSources(_, _)
NodeSources(name, node) ==
  IF node.kind # "map" THEN {}
  ELSE IF node.type = "array" THEN NodeSources(name \o StrItem, node.items)
  ELSE IF node.type = "object"
  THEN {<<toProtoMessageName(name), PropsOf(node)>>}
       \cup UNION {NodeSources(k, PropsOf(node)[k]) : k \in DOMAIN PropsOf(node)}
  ELSE {}

EntriesSources(m) == UNION {NodeSources(k, m[k]) : k \in DOMAIN m}

\* Every node of a schema that a message is made from: the top level (Root),
\* the definitions (named by their keys) and the object nodes.
SchemaSources(schema) ==
  (IF schema.properties.kind = "entries"
   THEN {<<StrRoot, schema.properties.m>>} \cup EntriesSources(schema.properties.m)
   ELSE {})
  \cup
  (IF schema.definitions.kind = "entries"
   THEN UNION { IF schema.definitions.m[d].kind = "map"
                THEN {<<d, PropsOf(schema.definitions.m[d])>>}
                     \cup EntriesSources(PropsOf(schema.definitions.m[d]))
                ELSE {}
                : d \in DOMAIN schema.definitions.m }
   ELSE {})

IsBadArray(v) == v.kind = "map" /\ v.type = "array" /\ v.items.kind # "map"

\* Every array node at or below v has a JSON object as items; with strict,
\* also every property value at or below v is a JSON object.
RECURSIVE WellFormedNode(_, _)
WellFormedNode(v, strict) ==
  IF v.kind # "map" THEN ~strict
  ELSE IF v.type = "array"
  THEN v.items.kind = "map" /\ WellFormedNode(v.items, strict)
  ELSE IF v.type = "object"
  THEN \A k \in DOMAIN PropsOf(v) : WellFormedNode(PropsOf(v)[k], strict)
  ELSE TRUE

WellFormedSchema(schema, strict) ==
  /\ schema.properties.kind = "entries" =>
       \A k \in DOMAIN schema.properties.m :
          WellFormedNode(schema.properties.m[k], strict)
  /\ schema.definitions.kind = "entries" =>
       \A d \in DOMAIN schema.definitions.m :
          schema.definitions.m[d].kind = "map" =>
            \A k \in DOMAIN PropsOf(schema.definitions.m[d]) :
               WellFormedNode(PropsOf(schema.definitions.m[d])[k], strict)

IsPrefix(p, t) == Len(p) <= Len(t) /\ SubSeq(t, 1, Len(p)) = p

\* The options a call runs under: the defaults when it is given none.
EffectiveOptions == IF call.opts.kind = "nil" THEN DefaultOptions ELSE call.opts

HasProperties == call.schema.properties.kind = "entries"

HasDefinitions == call.schema.definitions.kind = "entries"

\* The message names of the object nodes the traversal of run r resolved and
\* of the definitions that are JSON objects.
CollectedNames(r) ==
  { toProtoMessageName(results[r].ret.calls[c].name)
    : c \in { c \in DOMAIN results[r].ret.calls :
                /\ results[r].ret.calls[c].prop.kind = "map"
                /\ results[r].ret.calls[c].prop.type = "object" } }
  \cup
  (IF HasDefinitions
   THEN { d \in DOMAIN call.schema.definitions.m :
            call.schema.definitions.m[d].kind = "map" }
   ELSE {})

\* ------------------------------------------------------------------------
\* Properties
\* ------------------------------------------------------------------------
\* C1: two conversions of the same schema with the same options return the
\* same text, or both fail, whatever order the maps are iterated in.
Determinism ==
  (IsConversion /\ Len(results) = 2) =>
     /\ results[1].ret.out = results[2].ret.out
     /\ Succeeded(1) <=> Succeeded(2)

\* Two successful conversions under different iteration orders of a schema
\* with two top-level properties and at least three collected messages.
DeterminismWitness ==
  /\ IsConversion /\ Len(results) = 2
  /\ results[1].ord # results[2].ord
  /\ Succeeded(1) /\ Succeeded(2)
  /\ call.schema.properties.kind = "entries"
  /\ Cardinality(DOMAIN call.schema.properties.m) = 2
  /\ Cardinality(DOMAIN results[1].ret.messages) >= 3

WriteOnce ==
  \A r \in Runs : IsConversion =>
    LET writes == results[r].ret.writes
    IN  \A j \in DOMAIN writes : \A i \in 1..(j - 1) :
          writes[i].name = writes[j].name => writes[j].text = writes[i].text

\* C4: the text of a successful conversion has no two message blocks of the
\* same name, and exactly one block for every name stored in the registry,
\* however many nodes derive that name.
OneBlockPerName ==
  \A r \in Runs : (IsConversion /\ Succeeded(r)) =>
    LET names == MessageNames(results[r].ret.out)
        writes == results[r].ret.writes
    IN  /\ \A i, j \in DOMAIN names : i # j => names[i] # names[j]
        /\ \A w \in DOMAIN writes :
              Cardinality({i \in DOMAIN names : names[i] = writes[w].name}) = 1

\* A successful conversion of a schema in which two different object nodes
\* derive the same message name.
OneBlockPerNameWitness ==
  /\ IsConversion /\ Len(results) >= 1 /\ Succeeded(1)
  /\ \E s1, s2 \in SchemaSources(call.schema) :
        /\ s1 # s2 /\ s1[1] = s2[1]
        /\ \E i \in DOMAIN results[1].ret.out :
              results[1].ret.out[i] = [kind |-> "message", name |-> s1[1]]

\* C5: when the registry holds Root at emission, the first message of the
\* text is Root.
RootFirst ==
  \A r \in Runs :
    (IsConversion /\ Succeeded(r) /\ StrRoot \in DOMAIN results[r].ret.messages) =>
       MessageNames(results[r].ret.out)[1] = StrRoot

\* A successful conversion whose registry holds Root and a name that sorts
\* before it.
RootFirstWitness ==
  /\ IsConversion /\ Len(results) >= 1 /\ Succeeded(1)
  /\ StrRoot \in DOMAIN results[1].ret.messages
  /\ \E n \in DOMAIN results[1].ret.messages : StrLess(n, StrRoot)

\* C6: the messages other than Root appear in ascending order of their names.
OthersAscending ==
  \A r \in Runs : (IsConversion /\ Succeeded(r)) =>
    LET others == SelectSeq(MessageNames(results[r].ret.out), LAMBDA n : n # StrRoot)
    IN  \A i, j \in DOMAIN others : i < j => StrLess(others[i], others[j])

\* C7: when the traversal reaches an array node whose items is no JSON
\* object, the conversion returns the error that names the property (followed
\* by Item once for every enclosing array) and no text.
BadArrayIsFatal ==
  \A r \in Runs : IsConversion =>
    \A c \in DOMAIN results[r].ret.calls :
       IsBadArray(results[r].ret.calls[c].prop) =>
         /\ results[r].ret.err =
              Errorf("invalid array items format for", results[r].ret.calls[c].name)
         /\ \E k \in PropNames : IsPrefix(k, results[r].ret.err.name)
         /\ results[r].ret.out = <<>>

\* The array without items is itself the items of an array: the error names
\* the property followed by Item.
BadArrayIsFatalWitness ==
  /\ IsConversion /\ Len(results) >= 1
  /\ results[1].ret.err.msg = "invalid array items format for"
  /\ \E k \in PropNames : results[1].ret.err.name = k \o StrItem

\* C8 as stated: a conversion succeeds whenever every array node of the
\* schema has a JSON object as items.
OnlyBadArrayIsFatal ==
  \A r \in Runs : (IsConversion /\ WellFormedSchema(call.schema, FALSE)) => Succeeded(r)

\* C8 as amended: a conversion succeeds whenever every array node has a JSON
\* object as items and every property value is a JSON object; a property
\* value reached that is no JSON object fails the conversion with the error
\* "invalid property format" naming it, and no text.
OnlyBadArrayOrBadPropertyIsFatal ==
  \A r \in Runs : IsConversion =>
    /\ WellFormedSchema(call.schema, TRUE) => Succeeded(r)
    /\ \A c \in DOMAIN results[r].ret.calls :
          results[r].ret.calls[c].prop.kind # "map" =>
            /\ results[r].ret.err =
                 Errorf("invalid property format for", results[r].ret.calls[c].name)
            /\ results[r].ret.out = <<>>

\* A schema whose arrays all have items fails on a property that is no JSON
\* object.
BadPropertyWitness ==
  /\ IsConversion /\ Len(results) >= 1
  /\ WellFormedSchema(call.schema, FALSE)
  /\ results[1].ret.err.msg = "invalid property format for"

\* C9: a node of type integer without the date-time format resolves to the
\* caller's mapping of "integer" when there is one and to int32 otherwise.
IntegerMapping ==
  \A r \in Runs :
    (IsResolution /\ call.prop.type = "integer" /\ call.prop.format # "date-time") =>
       results[r].ret.type =
         IF call.opts.kind # "nil" /\ "integer" \in DOMAIN call.opts.TypeMappings
         THEN call.opts.TypeMappings["integer"]
         ELSE StrInt32

\* C10: a scalar node with the date-time format resolves to string under
\* every mapping table.
DateTimeIsString ==
  \A r \in Runs :
    (IsResolution /\ call.prop.type \notin {"array", "object"}
                  /\ call.prop.format = "date-time") =>
       results[r].ret.type = StrString /\ Succeeded(r)

\* A string node with the date-time format resolved under a table that maps
\* "string" to another type.
DateTimeIsStringWitness ==
  /\ IsResolution /\ Len(results) >= 1
  /\ call.prop.type = "string" /\ call.prop.format = "date-time"
  /\ call.opts.kind # "nil"
  /\ "string" \in DOMAIN call.opts.TypeMappings
  /\ call.opts.TypeMappings["string"] # StrString

\* C11: the text of a successful conversion has a message named Root exactly
\* when the schema has a "properties" JSON object (even an empty one) or a
\* collected message is named Root; without "properties" and "definitions"
\* the text is the syntax line and the package line alone.
RootPresence ==
  \A r \in Runs : (IsConversion /\ Succeeded(r)) =>
    /\ (StrRoot \in Range(MessageNames(results[r].ret.out)))
         <=> (HasProperties \/ StrRoot \in CollectedNames(r))
    /\ (~HasProperties /\ ~HasDefinitions) =>
         results[r].ret.out = Header(EffectiveOptions)

\* The schema has an empty "properties" and no "definitions": the text has the
\* message Root, without fields.
RootPresenceWitness ==
  /\ IsConversion /\ Len(results) >= 1 /\ Succeeded(1)
  /\ HasProperties /\ DOMAIN call.schema.properties.m = {}
  /\ ~HasDefinitions
  /\ \E i \in DOMAIN results[1].ret.out :
        /\ results[1].ret.out[i] = [kind |-> "message", name |-> StrRoot]
        /\ results[1].ret.out[i + 1] = [kind |-> "close"]

\* C12: for every definition that is a JSON object, the text of a successful
\* conversion has a message named by the normalized key of the definition,
\* with the numbered fields of the definition's properties, whether or not
\* the schema has "properties".
DefinitionsNormalized ==
  \A r \in Runs : (IsConversion /\ Succeeded(r) /\ HasDefinitions) =>
    \A d \in DOMAIN call.schema.definitions.m :
      call.schema.definitions.m[d].kind = "map" =>
        \E i \in DOMAIN results[r].ret.out :
          /\ results[r].ret.out[i] =
               [kind |-> "message", name |-> toProtoMessageName(d)]
          /\ BlockFields(results[r].ret.out, i) =
               ExpectedFields(PropsOf(call.schema.definitions.m[d]), call.opts)

\* A name with every upper-case letter made lower-case and every character
\* that is then no lower-case letter and no digit made "_".
Folded(name) ==
  [i \in DOMAIN name |->
     IF name[i] \in Range(UpperChars) THEN LowerChars[IndexIn(UpperChars, name[i])]
     ELSE IF name[i] \in Range(LowerChars) \cup Range(DigitChars) THEN name[i]
     ELSE "_"]

\* The position of the first character of s that is no digit, Len(s) + 1 when
\* there is none.
FirstNonDigit(s) ==
  CHOOSE k \in 1..(Len(s) + 1) :
    /\ \A j \in 1..(k - 1) : s[j] \in Range(DigitChars)
    /\ k <= Len(s) => s[k] \notin Range(DigitChars)

\* C13: SanitizeFieldName(name) is the folded name, with its leading digits,
\* if it has any, moved behind the rest (behind "field" when the name is all
\* digits); for a non-empty name it is non-empty, made of lower-case letters,
\* digits and "_", and does not begin with a digit.
SanitizeContract ==
  (IsSanitization /\ Len(results) = 1) =>
    LET f == Folded(call.name)
        k == FirstNonDigit(f)
        out == results[1].ret
    IN  /\ out = IF k = 1 THEN f
                 ELSE IF k > Len(f) THEN StrField \o f
                 ELSE [i \in 1..Len(f) |-> f[((i + k - 2) % Len(f)) + 1]]
        /\ call.name # <<>> =>
             /\ out # <<>>
             /\ \A i \in DOMAIN out :
                   out[i] \in Range(LowerChars) \cup Range(DigitChars) \cup {"_"}
             /\ out[1] \notin Range(DigitChars)

\* "12A" has become "a12".
SanitizeContractWitness ==
  /\ IsSanitization /\ Len(results) = 1
  /\ call.name = <<"1", "2", "A">>
  /\ results[1].ret = <<"a", "1", "2">>

\* The descriptions at or below the node that a property called name holds:
\* <<"message", message name, description>> for a described object node,
\* <<"field", field name, description>> for a described property of another
\* type.
RECURSIVE Described(_, _)
Described(name, node) ==
  IF node.kind # "map" THEN {}
  ELSE IF node.type = "array" THEN Described(name \o StrItem, node.items)
  ELSE IF node.type = "object"
  THEN (IF node.description # <<>>
        THEN {<<"message", toProtoMessageName(name), node.description>>} ELSE {})
       \cup UNION {Described(k, PropsOf(node)[k]) : k \in DOMAIN PropsOf(node)}
  ELSE (IF node.description # <<>>
        THEN {<<"field", SanitizeFieldName(name), node.description>>} ELSE {})

\* The descriptions of a schema: of the top level (the message Root), of the
\* definitions and of everything below their properties.
DescribedInSchema(schema) ==
  (IF schema.properties.kind = "entries"
   THEN (IF schema.description # <<>>
         THEN {<<"message", StrRoot, schema.description>>} ELSE {})
        \cup UNION {Described(k, schema.properties.m[k]) : k \in DOMAIN schema.properties.m}
   ELSE {})
  \cup
  (IF schema.definitions.kind = "entries"
   THEN UNION { IF schema.definitions.m[d].kind = "map"
                THEN (IF schema.definitions.m[d].description # <<>>
                      THEN {<<"message", d, schema.definitions.m[d].description>>}
                      ELSE {})
                     \cup UNION { Described(k, PropsOf(schema.definitions.m[d])[k])
                                  : k \in DOMAIN PropsOf(schema.definitions.m[d]) }
                ELSE {}
                : d \in DOMAIN schema.definitions.m }
   ELSE {})

\* Line i of a text is directly preceded by the comment lines of desc.
CommentedAt(text, i, desc) ==
  /\ i > Len(formatDescription(desc))
  /\ SubSeq(text, i - Len(formatDescription(desc)), i - 1) = formatDescription(desc)

\* C14: in the text of a successful conversion every described object node has
\* its description as the comment lines directly before its message line, and
\* every other described property has its description as the comment lines
\* directly before its field line, in Root, in the messages of definitions and
\* in the messages of nested objects alike.
DescriptionsPreserved ==
  \A r \in Runs : (IsConversion /\ Succeeded(r)) =>
    \A d \in DescribedInSchema(call.schema) :
      \E i \in DOMAIN results[r].ret.out :
        /\ results[r].ret.out[i].kind = d[1]
        /\ results[r].ret.out[i].name = d[2]
        /\ CommentedAt(results[r].ret.out, i, d[3])

\* The number of places of the string t where the string w begins.
Occurrences(w, t) ==
  Cardinality({i \in 1..(Len(t) - Len(w) + 1) : SubSeq(t, i, i + Len(w) - 1) = w})

\* C15: an array node, whatever the depth of arrays in its items, resolves to
\* a type with the keyword repeated exactly once, and no field of a text has
\* the keyword more than once.
RepeatedOnce ==
  \A r \in Runs :
    /\ (IsResolution /\ Succeeded(r) /\ call.prop.type = "array") =>
         Occurrences(StrRepeated, results[r].ret.type) = 1
    /\ (IsConversion /\ Succeeded(r)) =>
         \A i \in DOMAIN results[r].ret.out :
            results[r].ret.out[i].kind = "field" =>
              Occurrences(StrRepeated, results[r].ret.out[i].type) <= 1

\* The characters that separate the words of a name.
Separators == {"_", "-", " ", "."}

\* The words of s written together, each in lower case behind an upper-case
\* first character; start tells that s begins a word.
RECURSIVE PascalCase(_, _)
PascalCase(s, start) ==
  IF s = <<>> THEN <<>>
  ELSE IF s[1] \in Separators THEN PascalCase(Tail(s), TRUE)
  ELSE <<IF start THEN UpperTable[s[1]] ELSE LowerTable[s[1]]>>
       \o PascalCase(Tail(s), FALSE)

\* C16: the message made from an object property is named by the PascalCase
\* form of the property's name, and the message made from the objects of an
\* array property by the PascalCase form of the name followed by Item.
MessageNaming ==
  \A r \in Runs : (IsResolution /\ Succeeded(r)) =>
    /\ call.prop.type = "object" =>
         results[r].ret.type = PascalCase(call.name, TRUE)
    /\ (call.prop.type = "array" /\ call.prop.items.type = "object") =>
         results[r].ret.type =
           StrRepeated \o <<" ">> \o PascalCase(call.name \o StrItem, TRUE)

\* The "type" values the resolver and the default mapping table know.
KnownTypes == {"string", "integer", "number", "boolean", "array", "object"}

\* A JSON object whose "type" is absent, no string, or no known type.
IsDegraded(v) == v.kind = "map" /\ v.type \notin KnownTypes

UnderDefaults ==
  call.opts.kind = "nil" \/ call.opts.TypeMappings = DefaultTypeMappings

\* C17: under the default options a node without a known type resolves to
\* string without error, an object node without a "properties" JSON object
\* resolves to a message without fields, and in the text of a conversion the
\* field of every top-level property without a known type is in the message
\* Root, with the type string.
DegradedFieldEmitted ==
  \A r \in Runs :
    /\ (IsResolution /\ UnderDefaults /\ IsDegraded(call.prop)) =>
         results[r].ret.type = StrString /\ Succeeded(r)
    /\ (IsResolution /\ UnderDefaults /\ call.prop.type = "object"
                      /\ call.prop.properties.kind # "entries") =>
         /\ Succeeded(r)
         /\ results[r].ret.st.messages[results[r].ret.type] =
              MessageText(<<>>, results[r].ret.type, <<>>)
    /\ (IsConversion /\ UnderDefaults /\ HasProperties
                      /\ WellFormedSchema(call.schema, TRUE)) =>
         /\ Succeeded(r)
         /\ \A k \in DOMAIN call.schema.properties.m :
               IsDegraded(call.schema.properties.m[k]) =>
                 \E i \in DOMAIN results[r].ret.out :
                   /\ results[r].ret.out[i] = [kind |-> "message", name |-> StrRoot]
                   /\ \E f \in Range(BlockFields(results[r].ret.out, i)) :
                         f.type = StrString /\ f.name = SanitizeFieldName(k)

\* The nodes directly below a node: its items and the values of its
\* properties.
Children(node) ==
  IF node.kind # "map" THEN {}
  ELSE (IF node.items.kind = "map" THEN {node.items} ELSE {})
       \cup {PropsOf(node)[k] : k \in DOMAIN PropsOf(node)}

\* The number of values in the tree of a node, itself included.
RECURSIVE TreeSize(_)
RECURSIVE TreeSizeOfProps(_, _)
TreeSize(node) ==
  IF node.kind # "map" THEN 1
  ELSE 1 + (IF node.items.kind = "map" THEN TreeSize(node.items) ELSE 0)
         + TreeSizeOfProps(PropsOf(node), SetToSeq(DOMAIN PropsOf(node)))

TreeSizeOfProps(m, keys) ==
  IF keys = <<>> THEN 0
  ELSE TreeSize(m[keys[1]]) + TreeSizeOfProps(m, Tail(keys))

\* The values a loop of ConvertJSONSchemaToProto hands to the resolver: the
\* top-level properties and the properties of the definitions.
LoopArguments(schema) ==
  (IF schema.properties.kind = "entries"
   THEN {schema.properties.m[k] : k \in DOMAIN schema.properties.m} ELSE {})
  \cup
  (IF schema.definitions.kind = "entries"
   THEN UNION { Children([schema.definitions.m[d] EXCEPT !.items = NotAMap])
                : d \in {d \in DOMAIN schema.definitions.m :
                           schema.definitions.m[d].kind = "map"} }
   ELSE {})

\* The number of values below the top level of a schema that the traversal
\* can reach.
SchemaSize(schema) ==
  (IF schema.properties.kind = "entries"
   THEN TreeSizeOfProps(schema.properties.m, SetToSeq(DOMAIN schema.properties.m))
   ELSE 0)
  +
  (IF schema.definitions.kind = "entries"
   THEN TreeSizeOfProps(
          [d \in DOMAIN schema.definitions.m |->
             IF schema.definitions.m[d].kind = "map"
             THEN [schema.definitions.m[d] EXCEPT !.items = NotAMap]
             ELSE NotAMap],
          SetToSeq(DOMAIN schema.definitions.m))
   ELSE 0)

\* The resolver calls of run r, in the order they were made.
CallsOf(r) ==
  IF IsConversion THEN results[r].ret.calls ELSE results[r].ret.st.calls

\* Every resolver call made by a resolver call is made on a node directly
\* below the caller's node; a conversion makes its other resolver calls on
\* nodes of the schema, makes no more calls than the schema has nodes, and
\* returns either a text or an error; no call is left unreturned.
ResolverDescends ==
  \A r \in Runs : (IsConversion \/ IsResolution) =>
    /\ \A c \in DOMAIN CallsOf(r) :
          CallsOf(r)[c].parent # NoCaller =>
            /\ CallsOf(r)[c].prop \in Children(CallsOf(r)[c].parent)
            /\ TreeSize(CallsOf(r)[c].prop) < TreeSize(CallsOf(r)[c].parent)
    /\ IsConversion =>
          /\ \A c \in DOMAIN CallsOf(r) :
                CallsOf(r)[c].parent = NoCaller =>
                  CallsOf(r)[c].prop \in LoopArguments(call.schema)
          /\ Len(CallsOf(r)) <= SchemaSize(call.schema)
          /\ \/ results[r].ret.err = Nil /\ results[r].ret.out # <<>>
             \/ results[r].ret.err # Nil /\ results[r].ret.out = <<>>
    /\ IsResolution => results[r].ret.st.stack = <<>>

\* C18: every call returns, and every recursive resolver call is made on a
\* strict sub-node of the caller's node, so that the calls of a conversion
\* are bounded by the nodes of the schema, also when an object derives the
\* message name of an ancestor.
Termination == []ResolverDescends /\ <>(results # <<>>)

\* An object property was resolved inside the resolution of an object
\* property that derives the same message name.
TerminationWitness ==
  /\ IsConversion /\ Len(results) >= 1
  /\ \E c, p \in DOMAIN CallsOf(1) :
        /\ p < c
        /\ CallsOf(1)[c].parent = CallsOf(1)[p].prop
        /\ CallsOf(1)[c].prop.kind = "map" /\ CallsOf(1)[c].prop.type = "object"
        /\ CallsOf(1)[p].prop.type = "object"
        /\ toProtoMessageName(CallsOf(1)[c].name) = toProtoMessageName(CallsOf(1)[p].name)

\* The scalar keywords of the default mapping table.
ScalarKeywords == {StrString, StrInt32, StrDouble, StrBool}

\* A field type without its leading "repeated ", if it has one.
ElementType(t) ==
  IF IsPrefix(StrRepeated \o <<" ">>, t)
  THEN SubSeq(t, Len(StrRepeated) + 2, Len(t)) ELSE t

\* C19: under the default type mappings, in the text of a successful
\* conversion every field type, without its leading "repeated ", is a scalar
\* keyword or the name of a message of the same text.
ReferentialIntegrity ==
  \A r \in Runs : (IsConversion /\ Succeeded(r) /\ UnderDefaults) =>
    \A i \in DOMAIN results[r].ret.out :
      results[r].ret.out[i].kind = "field" =>
        \/ ElementType(results[r].ret.out[i].type) \in ScalarKeywords
        \/ ElementType(results[r].ret.out[i].type)
             \in Range(MessageNames(results[r].ret.out))

\* C20: in the text of a successful conversion the fields of one message
\* have pairwise different names.
FieldNamesUnique ==
  \A r \in Runs : (IsConversion /\ Succeeded(r)) =>
    \A i \in DOMAIN results[r].ret.out :
      results[r].ret.out[i].kind = "message" =>
        \A j, k \in DOMAIN BlockFields(results[r].ret.out, i) :
          j # k => BlockFields(results[r].ret.out, i)[j].name
                   # BlockFields(results[r].ret.out, i)[k].name

====
